---- MODULE Spec2Model ----
(***************************************************************************)
(* Validator round of the protein-folding subnet.                          *)
(*                                                                         *)
(*   get_energies  (src/folding/validators/reward.py)   : SpecEnergies     *)
(*   forward       (src/folding/validators/forward.py)  : SpecForward      *)
(*   gro_hash             (src/folding/utils/ops.py)    : SpecGro          *)
(*   run_cmd_commands     (src/folding/utils/ops.py)    : SpecCmd          *)
(*   get_response_info    (src/folding/utils/ops.py)    : SpecInfo         *)
(*   select_random_pdb_id (src/folding/utils/ops.py)    : SpecSelect       *)
(*                                                                         *)
(* Energies and RMSDs are floats in the source; here they are integers in  *)
(* tenths (-5423 stands for -542.3).                                       *)
(***************************************************************************)
EXTENDS Integers, Sequences, FiniteSets, TLC

\* ---------------------------------------------------------------- bounds
\* queried workers per call of get_energies
MaxWorkers == 2
\* largest hp_sampler.TOTAL_COMBINATIONS
MaxTotal == 2
\* rounds of the `while True` loop of forward
MaxRounds == 2

\* ------------------------------------------------------------- variables
VARIABLES
    uids,          \* get_energies argument: list of queried worker ids
    responses,     \* get_energies argument: list of FoldingSynapse responses
    ge_pc,         \* "call" | "loop" | "returned" | "raised"
    ge_i,          \* number of (uid, resp) pairs the for loop has consumed
    energies,      \* np.zeros(len(uids)), then energies[i] = ...
    ge_event,      \* the dict `event` of get_energies
    ge_log,        \* btlogger calls made so far: <<[level, uid]>>
    ge_checked,    \* positions for which protein.is_run_valid was called
    config,               \* self.config
    TOTAL_COMBINATIONS,   \* hp_sampler.TOTAL_COMBINATIONS
    fw_pc,                \* "idle" | "round" | "loop" | "after_loop" | "run_step" |
                          \* "await" (suspended in run_step, line 46) | "crashed"
    fw_round,             \* rounds of `while True` started so far
    iteration_num,        \* passes of the for loop made in this round
    pdb_id,               \* locals of forward; Unbound until first assigned
    sampled_combination,
    protein,
    hps,
    event,
    fw_exc,               \* the exception that left forward, if any
    fw_hist,              \* this round's attempts, in order, each with the events logged for it
    fw_dispatched,        \* Tasks sent to the workers in this round
    fw_scored,            \* arguments of the latest self.update_scores call
    fw_logged,            \* events log_event received in this round, in order
    gro_file,             \* gro_hash: the lines of the file at gro_path
    gro_other,            \* a second file, hashed for comparison
    gro_pc,               \* "idle" | "call" | "done"
    gro_out,              \* what gro_hash(gro_file) did
    gro_out_other,        \* what gro_hash(gro_other) did
    commands,             \* run_cmd_commands arguments
    suppress_cmd_output,
    cmd_pc,               \* "idle" | "loop" | "returned" | "raised"
    cmd_i,                \* commands the for loop has taken so far
    timings,              \* the dicts run_cmd_commands builds
    errors,
    info_responses,       \* get_response_info argument
    info_pc,              \* "idle" | "call" | "returned"
    info_out,             \* the dict get_response_info returns
    sel_PDB_IDS,          \* select_random_pdb_id argument
    sel_pc,               \* "idle" | "loop" | "finally" | "returned" | "raised"
    sel_choices,          \* the local `choices` (<<>> until it is assigned)
    sel_out               \* the identifier select_random_pdb_id returned, or None

ge_vars == <<uids, responses, ge_pc, ge_i, energies, ge_event, ge_log, ge_checked>>

fw_vars == <<config, TOTAL_COMBINATIONS, fw_pc, fw_round, iteration_num, pdb_id,
             sampled_combination, protein, hps, event, fw_exc, fw_hist,
             fw_dispatched, fw_scored, fw_logged>>

gro_vars == <<gro_file, gro_other, gro_pc, gro_out, gro_out_other>>

cmd_vars == <<commands, suppress_cmd_output, cmd_pc, cmd_i, timings, errors>>

info_vars == <<info_responses, info_pc, info_out>>

sel_vars == <<sel_PDB_IDS, sel_pc, sel_choices, sel_out>>

ops_vars == <<gro_vars, cmd_vars, info_vars, sel_vars>>

vars == <<ge_vars, fw_vars, ops_vars>>

Min(a, b) == IF a <= b THEN a ELSE b

\* ------------------------------------------------------------ get_energies
\* What a worker can send back.  md_output.kind says what the Protein makes
\* of the returned bundle: "unparseable" (process_md_output returns False),
\* "corrupt" (process_md_output raises), "no_energy" (parsed, but the energy
\* or rmsd frame cannot be read: get_energy/get_rmsd/.iloc[-1] raises),
\* "trajectory" (parsed, last potential energy and last rmsd as given).
Trajectories ==
    { [kind |-> "trajectory", energy |-> -5423, rmsd |-> 12],
      [kind |-> "trajectory", energy |-> 0,     rmsd |-> 5],
      [kind |-> "trajectory", energy |-> 71,    rmsd |-> 30] }

MdOutputs ==
    Trajectories \cup
    { [kind |-> k, energy |-> 0, rmsd |-> 0] :
        k \in {"unparseable", "corrupt", "no_energy"} }

StatusCodes == {200, 500}

\* Outcome of the validator's own check of the run (protein.is_run_valid).
RunChecks == {"valid", "invalid", "raise"}

Responses ==
    [md_output : MdOutputs, status_code : StatusCodes, run_check : RunChecks]

SeqsUpTo(S, n) == UNION { [1..k -> S] : k \in 0..n }

UidList(n) == [k \in 1..n |-> 8 + k]

\* The Protein methods get_energies calls are modelled by their outcome,
\* which the response determines.
\* protein.process_md_output(md_output=..., hotkey=...)
process_md_output(resp) ==
    CASE resp.md_output.kind = "corrupt"     -> "raise"
      [] resp.md_output.kind = "unparseable" -> "false"
      [] OTHER                               -> "true"

\* protein.get_energy(data_type="Potential").iloc[-1]["energy"] and
\* protein.get_rmsd().iloc[-1]["rmsd"]
get_energy(resp) ==
    IF resp.md_output.kind = "no_energy"
    THEN [raised |-> TRUE,  energy |-> 0, rmsd |-> 0]
    ELSE [raised |-> FALSE, energy |-> resp.md_output.energy,
          rmsd |-> resp.md_output.rmsd]

\* protein.is_run_valid(energy, hotkey) -> (is_valid, checked_energy)
is_run_valid(energy, resp) ==
    CASE resp.run_check = "raise" ->
            [raised |-> TRUE,  is_valid |-> FALSE, checked_energy |-> 0]
      [] resp.run_check = "valid" ->
            [raised |-> FALSE, is_valid |-> TRUE,  checked_energy |-> energy]
      [] OTHER ->
            [raised |-> FALSE, is_valid |-> FALSE, checked_energy |-> energy - 1]

\* faulty variant: the arrays are sized by the responses, not by the uids
EmptyEventMutant(u, r) ==
    [ is_valid        |-> [k \in 1..Len(r) |-> FALSE],
      checked_energy  |-> [k \in 1..Len(r) |-> 0],
      reported_energy |-> [k \in 1..Len(r) |-> 0],
      rmsds           |-> [k \in 1..Len(r) |-> 0],
      energies        |-> [k \in 1..Len(r) |-> 0] ]

\* event = {...}; energies = np.zeros(len(uids))
EmptyEvent(u, r) ==
    [ is_valid        |-> [k \in 1..Len(u) |-> FALSE],
      checked_energy  |-> [k \in 1..Len(u) |-> 0],
      reported_energy |-> [k \in 1..Len(u) |-> 0],
      rmsds           |-> [k \in 1..Len(u) |-> 0],
      energies        |-> [k \in 1..Len(u) |-> 0] ]

\* What one pass of the loop body does for one worker:
\*   write   - lines 51-56 were reached (the five stores happen)
\*   log     - btlogger calls of this pass
\*   checked - is_run_valid was called
\*   abort   - an exception left get_energies
\* faulty variant: a rejected worker leaves a reported energy behind
SkipMutant(log, checked) ==
    [ write |-> TRUE, is_valid |-> FALSE, checked_energy |-> 0,
      reported_energy |-> 1, rmsd |-> 0, energy |-> 0,
      log |-> log, checked |-> checked, abort |-> FALSE ]

Skip(log, checked) ==
    [ write |-> FALSE, is_valid |-> FALSE, checked_energy |-> 0,
      reported_energy |-> 0, rmsd |-> 0, energy |-> 0,
      log |-> log, checked |-> checked, abort |-> FALSE ]

\* faulty variant: no handler, the exception leaves get_energies
ExceptHandlerMutant(uid, checked) ==
    [ Skip(<<>>, checked) EXCEPT !.abort = TRUE ]

\* except Exception as E: btlogger.error(...); continue
ExceptHandler(uid, checked) ==
    Skip(<<[level |-> "error", uid |-> uid]>>, checked)

\* faulty variant: the status code is not looked at
StatusRejectedMutant(resp) == FALSE

\* if resp.dendrite.status_code != 200
StatusRejected(resp) == resp.status_code # 200

\* faulty variant: no zero-energy test
ZeroEnergyMutant(energy) == FALSE

\* if energy == 0
ZeroEnergy(energy) == energy = 0

\* faulty variant: energies[i] = energy
EnergyEntryMutant(energy, is_valid) == energy

\* energies[i] = energy if is_valid else 0
EnergyEntry(energy, is_valid) == IF is_valid THEN energy ELSE 0

\* the body of the for loop, lines 33-63
LoopBody(uid, resp) ==
    IF process_md_output(resp) = "raise" THEN ExceptHandler(uid, FALSE)
    ELSE IF process_md_output(resp) = "false" THEN Skip(<<>>, FALSE)
    ELSE IF StatusRejected(resp)
         THEN Skip(<<[level |-> "info", uid |-> uid]>>, FALSE)
    ELSE LET e == get_energy(resp) IN
         IF e.raised THEN ExceptHandler(uid, FALSE)
         ELSE IF ZeroEnergy(e.energy) THEN Skip(<<>>, FALSE)
         ELSE LET c == is_run_valid(e.energy, resp) IN
              IF c.raised THEN ExceptHandler(uid, TRUE)
              ELSE [ write |-> TRUE,
                     is_valid |-> c.is_valid,
                     checked_energy |-> c.checked_energy,
                     reported_energy |-> e.energy,
                     rmsd |-> e.rmsd,
                     energy |-> EnergyEntry(e.energy, c.is_valid),
                     log |-> <<>>, checked |-> TRUE, abort |-> FALSE ]

\* a value that stands for Python's None
None == "None"

\* a local variable that has not been assigned yet
Unbound == [unbound |-> TRUE]

\* none of the functions of utils/ops.py is running
GroIdle ==
    /\ gro_file = <<>>
    /\ gro_other = <<>>
    /\ gro_pc = "idle"
    /\ gro_out = Unbound
    /\ gro_out_other = Unbound

CmdIdle ==
    /\ commands = <<>>
    /\ suppress_cmd_output = TRUE
    /\ cmd_pc = "idle"
    /\ cmd_i = 0
    /\ timings = Unbound
    /\ errors = Unbound

InfoIdle ==
    /\ info_responses = <<>>
    /\ info_pc = "idle"
    /\ info_out = Unbound

SelectIdle ==
    /\ sel_PDB_IDS = <<>>
    /\ sel_pc = "idle"
    /\ sel_choices = <<>>
    /\ sel_out = None

OpsIdle == GroIdle /\ CmdIdle /\ InfoIdle /\ SelectIdle

\* forward is not running
ForwardIdle ==
    /\ config = Unbound
    /\ TOTAL_COMBINATIONS = 0
    /\ fw_pc = "idle"
    /\ fw_round = 0
    /\ iteration_num = 0
    /\ pdb_id = Unbound
    /\ sampled_combination = Unbound
    /\ protein = Unbound
    /\ hps = Unbound
    /\ event = Unbound
    /\ fw_exc = Unbound
    /\ fw_hist = <<>>
    /\ fw_dispatched = <<>>
    /\ fw_scored = <<>>
    /\ fw_logged = <<>>


NoEvent ==
    [ is_valid |-> <<>>, checked_energy |-> <<>>,
      reported_energy |-> <<>>, rmsds |-> <<>> ]

InitEnergies ==
    /\ ForwardIdle
    /\ OpsIdle
    /\ \E n \in 0..MaxWorkers : uids = UidList(n)
    /\ responses \in SeqsUpTo(Responses, MaxWorkers)
    /\ ge_pc = "call"
    /\ ge_i = 0
    /\ energies = <<>>
    /\ ge_event = NoEvent
    /\ ge_log = <<>>
    /\ ge_checked = {}

\* lines 25-30
GE_Enter ==
    /\ ge_pc = "call"
    /\ LET z == EmptyEvent(uids, responses) IN
         /\ ge_event' = [ is_valid |-> z.is_valid,
                          checked_energy |-> z.checked_energy,
                          reported_energy |-> z.reported_energy,
                          rmsds |-> z.rmsds ]
         /\ energies' = z.energies
    /\ ge_pc' = "loop"
    /\ UNCHANGED <<uids, responses, ge_i, ge_log, ge_checked, fw_vars, ops_vars>>

\* one pass of `for i, (uid, resp) in enumerate(zip(uids, responses))`
GE_Worker ==
    /\ ge_pc = "loop"
    /\ ge_i < Min(Len(uids), Len(responses))
    /\ LET i == ge_i + 1
           r == LoopBody(uids[i], responses[i])
       IN /\ ge_i' = i
          /\ ge_log' = ge_log \o r.log
          /\ ge_checked' = IF r.checked THEN ge_checked \cup {i} ELSE ge_checked
          /\ ge_pc' = IF r.abort THEN "raised" ELSE "loop"
          /\ IF r.write
             THEN /\ energies' = [energies EXCEPT ![i] = r.energy]
                  /\ ge_event' =
                       [ge_event EXCEPT !.is_valid[i] = r.is_valid,
                                        !.checked_energy[i] = r.checked_energy,
                                        !.reported_energy[i] = r.reported_energy,
                                        !.rmsds[i] = r.rmsd]
             ELSE UNCHANGED <<energies, ge_event>>
    /\ UNCHANGED <<uids, responses, fw_vars, ops_vars>>

\* return energies, event
GE_Return ==
    /\ ge_pc = "loop"
    /\ ge_i = Min(Len(uids), Len(responses))
    /\ ge_pc' = "returned"
    /\ UNCHANGED <<uids, responses, ge_i, energies, ge_event, ge_log, ge_checked, fw_vars, ops_vars>>

NextEnergies == GE_Enter \/ GE_Worker \/ GE_Return

SpecEnergies == InitEnergies /\ [][NextEnergies]_vars

\* ------------------------------------------------- get_energies: properties
Entered == ge_pc \in {"loop", "returned", "raised"}

Paired == Min(Len(uids), Len(responses))

\* a response that passes every gate of the loop body
Sound(resp) ==
    /\ resp.md_output.kind = "trajectory"
    /\ resp.status_code = 200
    /\ resp.md_output.energy # 0
    /\ resp.run_check = "valid"

\* a response whose processing raises an exception inside the try block
Raising(resp) ==
    \/ resp.md_output.kind = "corrupt"
    \/ /\ resp.md_output.kind = "no_energy"
       /\ resp.status_code = 200
    \/ /\ resp.md_output.kind = "trajectory"
       /\ resp.status_code = 200
       /\ resp.md_output.energy # 0
       /\ resp.run_check = "raise"

\* C1: the energies vector and the four diagnostic arrays have length
\* exactly N = len(uids), and position i holds what the i-th queried worker
\* returned (or the defaults), however many workers raise while being parsed.
C1_LengthAndOrder ==
    Entered =>
      /\ Len(energies) = Len(uids)
      /\ Len(ge_event.is_valid) = Len(uids)
      /\ Len(ge_event.checked_energy) = Len(uids)
      /\ Len(ge_event.reported_energy) = Len(uids)
      /\ Len(ge_event.rmsds) = Len(uids)
      /\ \A i \in 1..Len(uids) :
           IF i <= ge_i /\ Sound(responses[i])
           THEN /\ ge_event.is_valid[i] = TRUE
                /\ energies[i] = responses[i].md_output.energy
                /\ ge_event.reported_energy[i] = responses[i].md_output.energy
                /\ ge_event.rmsds[i] = responses[i].md_output.rmsd
           ELSE /\ ge_event.is_valid[i] = FALSE
                /\ energies[i] = 0
                /\ i <= ge_i =>
                     /\ ge_event.reported_energy[i]
                          \in {0, responses[i].md_output.energy}
                     /\ ge_event.rmsds[i] \in {0, responses[i].md_output.rmsd}
                /\ i > ge_i =>
                     /\ ge_event.reported_energy[i] = 0
                     /\ ge_event.checked_energy[i] = 0
                     /\ ge_event.rmsds[i] = 0

\* two workers, the first one raises while parsed, the second one is scored
C1_Witness ==
    /\ ge_pc = "returned"
    /\ Len(uids) = 2
    /\ Len(responses) = 2
    /\ responses[1].md_output.kind = "corrupt"
    /\ Sound(responses[2])
    /\ ge_event.is_valid = <<FALSE, TRUE>>
    /\ energies[2] = responses[2].md_output.energy

\* C2: every worker that is_valid marks False has a 0 in energies; an
\* entry of energies is non-zero only for a worker marked valid.
C2_InvalidHasZeroEnergy ==
    Entered =>
      \A i \in 1..Len(uids) :
         ge_event.is_valid[i] = FALSE => energies[i] = 0

\* a worker that passed parse, status and the zero test but failed the
\* validator's check: its energy is reported, its energies entry is 0
C2_Witness ==
    /\ ge_pc = "returned"
    /\ \E i \in 1..Paired :
         /\ responses[i].run_check = "invalid"
         /\ ge_event.reported_energy[i] # 0
         /\ ge_event.is_valid[i] = FALSE
         /\ energies[i] = 0

\* C3: a worker whose status code is not 200 is marked invalid and has
\* energies 0, whatever its payload parses to.
C3_Non200Invalid ==
    Entered =>
      \A i \in 1..Paired :
         responses[i].status_code # 200 =>
            /\ ge_event.is_valid[i] = FALSE
            /\ energies[i] = 0

\* a status-500 worker with an otherwise perfect payload, processed
C3_Witness ==
    /\ ge_pc = "returned"
    /\ \E i \in 1..Paired :
         /\ responses[i].status_code = 500
         /\ responses[i].md_output.kind = "trajectory"
         /\ responses[i].md_output.energy = -5423
         /\ responses[i].run_check = "valid"
         /\ ge_event.is_valid[i] = FALSE
         /\ energies[i] = 0

\* C4: a worker whose final potential energy is exactly zero is never handed
\* to the validity check and keeps is_valid False and energies 0.
C4_ZeroEnergySentinel ==
    Entered =>
      \A i \in 1..Paired :
         ( /\ responses[i].md_output.kind = "trajectory"
           /\ responses[i].md_output.energy = 0 ) =>
            /\ i \notin ge_checked
            /\ ge_event.is_valid[i] = FALSE
            /\ energies[i] = 0

\* a status-200 worker with energy 0 that the check would have accepted
C4_Witness ==
    /\ ge_pc = "returned"
    /\ \E i \in 1..Paired :
         /\ responses[i].md_output.kind = "trajectory"
         /\ responses[i].md_output.energy = 0
         /\ responses[i].status_code = 200
         /\ responses[i].run_check = "valid"
         /\ i \notin ge_checked
         /\ ge_event.is_valid[i] = FALSE

\* C5: an exception raised while one worker is processed never leaves
\* get_energies: it is logged as an error for that worker, the worker stays
\* invalid, and the loop goes on until every (uid, response) pair has been
\* processed and get_energies returns.
C5_ExceptionIsolated ==
    /\ ge_pc # "raised"
    /\ ge_pc = "returned" => ge_i = Paired
    /\ Entered =>
         \A i \in 1..ge_i :
            Raising(responses[i]) =>
               /\ ge_event.is_valid[i] = FALSE
               /\ energies[i] = 0
               /\ \E k \in 1..Len(ge_log) :
                    ge_log[k] = [level |-> "error", uid |-> uids[i]]

\* the first worker raises in the validity check, the second is still scored
C5_Witness ==
    /\ ge_pc = "returned"
    /\ Paired = 2
    /\ responses[1].run_check = "raise"
    /\ Raising(responses[1])
    /\ Sound(responses[2])
    /\ ge_event.is_valid[2] = TRUE
    /\ ge_log = <<[level |-> "error", uid |-> uids[1]]>>

\* ------------------------------------------------------------------ forward
\* dicts are functions from keys to values
EmptyDict == [k \in {} |-> TRUE]

Update(d, e) ==
    [k \in DOMAIN d \cup DOMAIN e |-> IF k \in DOMAIN e THEN e[k] ELSE d[k]]

Put(d, k, v) == Update(d, k :> v)

\* time.time() - start: the value of an elapsed time is left open
Elapsed == "elapsed"

FF_WATER_PAIRS ==
    ("amber03" :> "tip3p") @@ ("amber94" :> "tip3p") @@ ("amber96" :> "tip3p") @@
    ("amber99" :> "tip3p") @@ ("amber99sb-ildn" :> "tip3p") @@
    ("amber99sb" :> "tip3p") @@ ("amberGS" :> "tip3p") @@
    ("charmm27" :> "tip3p") @@
    ("gromos43a1" :> "spc") @@ ("gromos43a2" :> "spc") @@ ("gromos45a3" :> "spc") @@
    ("gromos53a5" :> "spc") @@ ("gromos53a6" :> "spc") @@ ("gromos54a7" :> "spc") @@
    ("oplsaa" :> "tip4p")

Compatible(ff, water) ==
    /\ ff \in DOMAIN FF_WATER_PAIRS
    /\ FF_WATER_PAIRS[ff] = water

\* values a configuration can pin
ProteinConfigs ==
    [ pdb_id : {None, "1ABC"},
      ff     : {None, "gromos43a1"},
      water  : {None, "spc", "tip3p"},
      box    : {None, "cubic"} ]

Configs ==
    [ ff      : {None, "gromos43a1"},
      water   : {None, "spc", "tip3p"},
      box     : {None, "cubic"},
      protein : ProteinConfigs ]

\* the structure-id pool select_random_pdb_id draws from
PDB_IDS == {"2XYZ", "3DEF"}

\* parse_config(config)
parse_config(cfg) ==
    (IF cfg.ff # None THEN {"FF"} ELSE {}) \cup
    (IF cfg.water # None THEN {"WATER"} ELSE {}) \cup
    (IF cfg.box # None THEN {"BOX"} ELSE {})

\* The sampler: value domains of the dimensions it searches
SamplerFF == {"amber03", "gromos43a1"}
SamplerBOX == {"dodecahedron"}
SamplerBOX_DISTANCE == {10}

\* HyperParameters(exclude=...): fails fast on an incompatible pinned pair
\* (the sampler's source is not part of the files modelled here; its
\* behaviour follows the design document)
HyperParameters(cfg, exclude) ==
    IF {"FF", "WATER"} \subseteq exclude /\ ~Compatible(cfg.ff, cfg.water)
    THEN "raise" ELSE "ok"

\* hp_sampler.sample_hyperparameters(): the combinations it can return, each
\* a compatible (FF, WATER) pair with a box, less the excluded dimensions
Combinations(exclude) ==
    { [k \in {"FF", "WATER", "BOX", "BOX_DISTANCE"} \ exclude |->
         CASE k = "FF"    -> f
           [] k = "WATER" -> FF_WATER_PAIRS[f]
           [] k = "BOX"   -> b
           [] OTHER       -> d ] :
      f \in SamplerFF, b \in SamplerBOX, d \in SamplerBOX_DISTANCE }

\* What the external calls of one pass of the for loop do: whether
\* sample_hyperparameters raises and what it returns, whether Protein(...)
\* raises, whether protein.forward() raises.
Externals(exclude) ==
    { [sample |-> "raise", combination |-> Unbound, ctor |-> "ok", prepare |-> "ok"] }
    \cup
    [ sample : {"ok"}, combination : Combinations(exclude),
      ctor : {"ok", "raise"}, prepare : {"ok", "raise"} ]

\* `config.protein.x if config.protein.x is not None else sampled_combination[X]`
Argument(pinned, combination, key) ==
    IF pinned # None THEN [raised |-> FALSE, val |-> pinned]
    ELSE IF key \in DOMAIN combination
         THEN [raised |-> FALSE, val |-> combination[key]]
         ELSE [raised |-> TRUE, val |-> None]

\* the try block, lines 120-147; L holds the locals before the pass
TryBlock(cfg, L, x) ==
    IF x.sample = "raise"
    THEN [ sampled_combination |-> L.sampled_combination,
           protein |-> L.protein, hps |-> L.hps, outcome |-> "sample_raised" ]
    ELSE LET s     == x.combination
             ff    == Argument(cfg.protein.ff, s, "FF")
             water == Argument(cfg.protein.water, s, "WATER")
             box   == Argument(cfg.protein.box, s, "BOX")
         IN IF ff.raised \/ water.raised \/ box.raised \/ x.ctor = "raise"
            THEN [ sampled_combination |-> s,
                   protein |-> L.protein, hps |-> L.hps,
                   outcome |-> "ctor_raised" ]
            ELSE [ sampled_combination |-> s,
                   protein |-> [ pdb_id |-> cfg.protein.pdb_id, ff |-> ff.val,
                                 water |-> water.val, box |-> box.val ],
                   hps |-> [ FF |-> ff.val, WATER |-> water.val, BOX |-> box.val,
                             BOX_DISTANCE |-> s["BOX_DISTANCE"] ],
                   outcome |-> IF x.prepare = "raise"
                               THEN "forward_raised" ELSE "ok" ]

\* faulty variant: the loop is never left early
SearchSucceededMutant(ev) == FALSE

\* if "validator_search_status" not in event
SearchSucceeded(ev) == "validator_search_status" \notin DOMAIN ev

\* one pass of the for loop, lines 116-171: try, except, finally
LoopPass(cfg, pdb, L, x) ==
    LET t == TryBlock(cfg, L, x)
        failed == t.outcome # "ok"
        \* the except clause formats sampled_combination before it sets the flag
        handled == failed /\ t.sampled_combination # Unbound
        ev1 == IF handled
               THEN Put(EmptyDict, "validator_search_status", FALSE)
               ELSE EmptyDict
        ev2 == Put(ev1, "pdb_id", pdb)
    IN IF t.hps = Unbound
       THEN [ t |-> t, event |-> ev2, logged |-> <<>>, exit |-> "raise",
              exc |-> [type |-> "UnboundLocalError", name |-> "hps", line |-> 158] ]
       ELSE LET ev3 == Update(ev2, t.hps)
                ev4 == Put(Put(ev3, "hp_sample_time", Elapsed),
                           "forward_time", Elapsed)
            IN IF SearchSucceeded(ev4)
               THEN [ t |-> t, event |-> Put(ev4, "validator_search_status", TRUE),
                      logged |-> <<>>, exit |-> "break", exc |-> Unbound ]
               ELSE [ t |-> t, event |-> ev4,
                      logged |-> <<ev4>>, exit |-> "next", exc |-> Unbound ]

\* An attribute that may be None is a sequence: <<>> for None, <<v>> for
\* the value v.  md_output is the dict of returned files, kept as the
\* sequence of its (name, content) items in insertion order.
InfoResponses ==
    [ process_time   : {<<>>, <<0>>, <<7>>},
      status_message : {<<>>, <<"OK">>},
      status_code    : {<<>>, <<200>>},
      md_output      : {<<>>, << <<"md.gro", "bytes">> >>} ]

\* str(resp.dendrite.status_message): a message is a string already
StrMessage(x) == IF x = <<>> THEN "None" ELSE x[1]

\* str(resp.dendrite.status_code): the decimal digits of the code
StrCode(x) == IF x = <<>> THEN "None" ELSE ToString(x[1])

\* list(d.keys())
Keys(d) == [k \in 1..Len(d) |-> d[k][1]]

\* faulty variant: a response without a process time gets no entry
TimeEntryMutant(resp) == resp.process_time

\* lines 154-157: what is appended to response_times
TimeEntry(resp) ==
    IF resp.process_time # <<>> THEN <<resp.process_time[1]>> ELSE <<0>>

\* get_response_info(responses), lines 145-168
RECURSIVE ResponseTimes(_)
ResponseTimes(resps) ==
    IF resps = <<>> THEN <<>>
    ELSE TimeEntry(Head(resps)) \o ResponseTimes(Tail(resps))

get_response_info(resps) ==
    [ response_times |-> ResponseTimes(resps),
      response_status_messages |->
          [k \in 1..Len(resps) |-> StrMessage(resps[k].status_message)],
      response_status_codes |->
          [k \in 1..Len(resps) |-> StrCode(resps[k].status_code)],
      response_returned_files |->
          [k \in 1..Len(resps) |-> Keys(resps[k].md_output)] ]

\* what the dendrite can give back for the two workers queried: both answer,
\* or the second one does not answer in time
Answered ==
    [ process_time |-> <<15>>, status_message |-> <<"OK">>,
      status_code |-> <<200>>, md_output |-> << <<"md.gro", "bytes">> >> ]

TimedOut ==
    [ process_time |-> <<>>, status_message |-> <<"Timeout">>,
      status_code |-> <<408>>, md_output |-> <<>> ]

DendriteResponses == { <<Answered, Answered>>, <<Answered, TimedOut>> }

\* self.block when the event is built
Blocks == {7, 8}

\* get_rewards(protein, responses, uids)[0]: the reward of every queried
\* worker, 0 for a worker without a usable answer
get_rewards(prot, resps, u) ==
    [ rewards |-> [k \in 1..Len(u) |->
                     IF k <= Len(resps) /\ resps[k].status_code = <<200>>
                     THEN 1 ELSE 0],
      uids |-> u ]

\* reward_event.asdict()
asdict(reward_event) ==
    ("rewards" :> reward_event.rewards) @@ ("uids" :> reward_event.uids)

\* run_step(self, protein, k, timeout), lines 46-76, from the moment the
\* dendrite has answered with resps: the update_scores call it makes and
\* the event it returns
run_step(prot, resps, block) ==
    LET u == <<9, 10>>
        reward_event == get_rewards(prot, resps, u)
        info == get_response_info(resps)
    IN [ scored |-> [rewards |-> reward_event.rewards,
                     uids |-> reward_event.uids],
         event  |-> Update(
                      Update(
                        ("block" :> block) @@ ("step_length" :> Elapsed)
                          @@ ("uids" :> u),
                        [key \in DOMAIN info |-> info[key]]),
                      asdict(reward_event)) ]

EnergiesIdle ==
    /\ uids = <<>>
    /\ responses = <<>>
    /\ ge_pc = "idle"
    /\ ge_i = 0
    /\ energies = <<>>
    /\ ge_event = NoEvent
    /\ ge_log = <<>>
    /\ ge_checked = {}

InitForward ==
    /\ EnergiesIdle
    /\ OpsIdle
    /\ config \in Configs
    /\ TOTAL_COMBINATIONS = 0
    /\ fw_pc = "round"
    /\ fw_round = 0
    /\ iteration_num = 0
    /\ pdb_id = Unbound
    /\ sampled_combination = Unbound
    /\ protein = Unbound
    /\ hps = Unbound
    /\ event = Unbound
    /\ fw_exc = Unbound
    /\ fw_hist = <<>>
    /\ fw_dispatched = <<>>
    /\ fw_scored = <<>>
    /\ fw_logged = <<>>

\* lines 104-115: top of `while True`; every round builds a new sampler and
\* reads its TOTAL_COMBINATIONS, which the sampler is free to set
FW_StartRound ==
    /\ fw_pc = "round"
    /\ fw_round < MaxRounds
    /\ fw_round' = fw_round + 1
    /\ \E id \in (IF config.protein.pdb_id = None
                  THEN PDB_IDS ELSE {config.protein.pdb_id}) :
          pdb_id' = id
    /\ IF HyperParameters(config, parse_config(config)) = "raise"
       THEN /\ fw_pc' = "crashed"
            /\ fw_exc' = [type |-> "ConfigError", name |-> "hp_sampler", line |-> 113]
       ELSE /\ fw_pc' = "loop"
            /\ fw_exc' = fw_exc
    /\ TOTAL_COMBINATIONS' \in 0..MaxTotal
    /\ iteration_num' = 0
    /\ fw_hist' = <<>>
    /\ fw_dispatched' = <<>>
    /\ fw_logged' = <<>>
    /\ UNCHANGED <<config, sampled_combination, protein, hps, event, fw_scored,
                   ge_vars, ops_vars>>

\* lines 115-171: one pass of `for iteration_num in range(TOTAL_COMBINATIONS)`
FW_Attempt ==
    /\ fw_pc = "loop"
    /\ iteration_num < TOTAL_COMBINATIONS
    /\ \E x \in Externals(parse_config(config)) :
         LET L == [ sampled_combination |-> sampled_combination,
                    protein |-> protein, hps |-> hps ]
             r == LoopPass(config, pdb_id, L, x)
         IN /\ sampled_combination' = r.t.sampled_combination
            /\ protein' = r.t.protein
            /\ hps' = r.t.hps
            /\ event' = r.event
            /\ fw_exc' = r.exc
            /\ fw_logged' = fw_logged \o r.logged
            /\ fw_hist' = Append(fw_hist,
                   [ sampled |-> IF x.sample = "ok" THEN x.combination ELSE Unbound,
                     outcome |-> r.t.outcome,
                     logged  |-> r.logged ])
            /\ fw_pc' = CASE r.exit = "raise" -> "crashed"
                          [] r.exit = "break" -> "after_loop"
                          [] OTHER            -> "loop"
            /\ iteration_num' = iteration_num + 1
    /\ UNCHANGED <<config, TOTAL_COMBINATIONS, fw_round, pdb_id, fw_dispatched,
                   fw_scored, ge_vars, ops_vars>>

\* the for loop runs out of combinations
FW_Exhausted ==
    /\ fw_pc = "loop"
    /\ iteration_num = TOTAL_COMBINATIONS
    /\ fw_pc' = "after_loop"
    /\ UNCHANGED <<config, TOTAL_COMBINATIONS, fw_round, iteration_num, pdb_id,
                   sampled_combination, protein, hps, event, fw_exc, fw_hist,
                   fw_dispatched, fw_scored, fw_logged, ge_vars, ops_vars>>

\* lines 174-178: if event["validator_search_status"] is False: continue
FW_AfterLoop ==
    /\ fw_pc = "after_loop"
    /\ IF event = Unbound
       THEN /\ fw_pc' = "crashed"
            /\ fw_exc' = [type |-> "UnboundLocalError", name |-> "event", line |-> 174]
       ELSE IF "validator_search_status" \notin DOMAIN event
       THEN /\ fw_pc' = "crashed"
            /\ fw_exc' = [type |-> "KeyError", name |-> "event", line |-> 174]
       ELSE /\ fw_pc' = IF event["validator_search_status"] = FALSE
                        THEN "round" ELSE "run_step"
            /\ fw_exc' = fw_exc
    /\ UNCHANGED <<config, TOTAL_COMBINATIONS, fw_round, iteration_num, pdb_id,
                   sampled_combination, protein, hps, event, fw_hist,
                   fw_dispatched, fw_scored, fw_logged, ge_vars, ops_vars>>

\* lines 181-182 and 28-46: run_step is entered, the Task is sent to the
\* workers and the coroutine is suspended at `await self.dendrite(...)`
FW_Dispatch ==
    /\ fw_pc = "run_step"
    /\ fw_dispatched' = Append(fw_dispatched, protein)
    /\ fw_pc' = "await"
    /\ UNCHANGED <<config, TOTAL_COMBINATIONS, fw_round, iteration_num, pdb_id,
                   sampled_combination, protein, hps, event, fw_exc, fw_hist,
                   fw_scored, fw_logged, ge_vars, ops_vars>>

\* lines 46-76 and 190-194: the dendrite answers, run_step scores the
\* workers and returns its event, forward merges it and logs the round
FW_RunStep ==
    /\ fw_pc = "await"
    /\ \E resps \in DendriteResponses, block \in Blocks :
         LET r  == run_step(protein, resps, block)
             ev == Put(Update(event, r.event), "forward_time", Elapsed)
         IN /\ fw_scored' = <<r.scored>>
            /\ event' = ev
            /\ fw_logged' = Append(fw_logged, ev)
            /\ fw_hist' = IF fw_hist = <<>> THEN fw_hist
                          ELSE [fw_hist EXCEPT ![Len(fw_hist)].logged = Append(@, ev)]
    /\ fw_pc' = "round"
    /\ UNCHANGED <<config, TOTAL_COMBINATIONS, fw_round, iteration_num, pdb_id,
                   sampled_combination, protein, hps, fw_exc, fw_dispatched,
                   ge_vars, ops_vars>>

\* the task running forward is cancelled while it is suspended at the
\* await: CancelledError leaves run_step and forward
FW_Cancelled ==
    /\ fw_pc = "await"
    /\ fw_pc' = "crashed"
    /\ fw_exc' = [type |-> "CancelledError", name |-> "dendrite", line |-> 46]
    /\ UNCHANGED <<config, TOTAL_COMBINATIONS, fw_round, iteration_num, pdb_id,
                   sampled_combination, protein, hps, event, fw_hist,
                   fw_dispatched, fw_scored, fw_logged, ge_vars, ops_vars>>

NextForward ==
    \/ FW_StartRound \/ FW_Attempt \/ FW_Exhausted \/ FW_AfterLoop
    \/ FW_Dispatch \/ FW_RunStep \/ FW_Cancelled

SpecForward == InitForward /\ [][NextForward]_vars

\* ------------------------------------------------------ forward: properties
Failed(k) == fw_hist[k].outcome # "ok"

\* C6: within one round at most TOTAL_COMBINATIONS combinations are
\* attempted, one per pass of the loop, and the loop is left at the first
\* combination whose preparation succeeds: a successful attempt is the last
\* attempt of its round and no combination is sampled after it.
C6_StopsAtFirstSuccess ==
    fw_pc # "idle" =>
      /\ Len(fw_hist) = iteration_num
      /\ Len(fw_hist) <= TOTAL_COMBINATIONS
      /\ \A k \in 1..Len(fw_hist) :
           ~Failed(k) => /\ k = Len(fw_hist)
                         /\ fw_pc \in {"after_loop", "run_step", "await",
                                       "round", "crashed"}

\* the first of two combinations prepares: the second one is never sampled
C6_Witness ==
    /\ fw_pc = "run_step"
    /\ TOTAL_COMBINATIONS = 2
    /\ Len(fw_hist) = 1
    /\ fw_hist[1].outcome = "ok"
    /\ fw_hist[1].sampled = sampled_combination

\* the value the event should carry under `key` for an attempt that sampled s
AttemptHP(key, s) ==
    CASE key = "FF"    /\ config.protein.ff # None    -> config.protein.ff
      [] key = "WATER" /\ config.protein.water # None -> config.protein.water
      [] key = "BOX"   /\ config.protein.box # None   -> config.protein.box
      [] OTHER                                        -> s[key]

\* C7: every attempt, failed or successful, emits exactly one event, and the
\* event holds the hyperparameters of that attempt, the elapsed times and
\* validator_search_status.  (A failed attempt is over when its pass of the
\* loop is; a successful one when its round is.)
C7_OneEventPerAttempt ==
    \A k \in 1..Len(fw_hist) :
       (Failed(k) \/ fw_pc = "round") =>
          /\ Len(fw_hist[k].logged) = 1
          /\ LET ev == fw_hist[k].logged[1]
                 s  == fw_hist[k].sampled
             IN /\ {"validator_search_status", "hp_sample_time", "forward_time"}
                      \subseteq DOMAIN ev
                /\ ev["validator_search_status"] = ~Failed(k)
                /\ s # Unbound =>
                     \A key \in DOMAIN s :
                        /\ key \in DOMAIN ev
                        /\ ev[key] = AttemptHP(key, s)

PreparationErrors == {"sample_raised", "ctor_raised", "forward_raised"}

\* C8: a preparation error (raised while sampling, constructing the Task or
\* running protein.forward()) never leaves forward: no exception comes out
\* of the pass of the loop in which the preparation failed.
C8_PreparationErrorRecovered ==
    ~ ( /\ fw_pc = "crashed"
        /\ fw_hist # <<>>
        /\ fw_hist[Len(fw_hist)].outcome \in PreparationErrors
        /\ fw_exc.line \in 115..171 )

\* C9: when every combination of a round has failed preparation, the round
\* has emitted validator_search_status = False for each of them, forward is
\* still running, and no worker is dispatched to in that round.
C9_AllFailedRoundSkipped ==
    ( /\ TOTAL_COMBINATIONS >= 1
      /\ Len(fw_hist) = TOTAL_COMBINATIONS
      /\ \A k \in 1..Len(fw_hist) : Failed(k) ) =>
       /\ fw_pc \in {"loop", "after_loop", "round"}
       /\ fw_dispatched = <<>>
       /\ \A k \in 1..Len(fw_hist) :
            /\ Len(fw_hist[k].logged) = 1
            /\ fw_hist[k].logged[1]["validator_search_status"] = FALSE

\* C10: every Task forward constructs has a force field and a water model
\* that are a pair of FF_WATER_PAIRS, whatever the configuration pins.
C10_TaskPairCompatible ==
    protein # Unbound => Compatible(protein.ff, protein.water)

\* C14: in every round workers are dispatched to at most once, only after
\* a preparation that succeeded in that same round and with the Task that
\* preparation built, and the round samples nothing after the dispatch;
\* for every TOTAL_COMBINATIONS, 0 included, and in rounds that follow a
\* successful round.
C14_DispatchOncePerRound ==
    /\ Len(fw_dispatched) <= 1
    /\ fw_pc = "run_step" \/ fw_dispatched # <<>> =>
         /\ fw_hist # <<>>
         /\ fw_hist[Len(fw_hist)].outcome = "ok"
    /\ fw_dispatched # <<>> =>
         /\ fw_dispatched[1] = protein
         /\ fw_pc \in {"await", "round", "crashed"}
         /\ Len(fw_hist) = iteration_num

\* C15: the Task an attempt constructs carries the structure id picked for
\* the round, the id its event records as pdb_id, whether the id comes from
\* the configuration or was selected at random.
C15_TaskHasRoundId ==
    ( /\ fw_hist # <<>>
      /\ fw_hist[Len(fw_hist)].outcome \in {"ok", "forward_raised"} ) =>
        /\ protein.pdb_id = pdb_id
        /\ \A k \in 1..Len(fw_hist[Len(fw_hist)].logged) :
             LET ev == fw_hist[Len(fw_hist)].logged[k]
             IN "pdb_id" \in DOMAIN ev => ev["pdb_id"] = protein.pdb_id

\* ------------------------------------- get_energies: further properties
\* a response that get_energies itself rejects: bad status, the sentinel
\* energy 0, or an exception caught by the handler (a parse that reports
\* False and a validity check that reports False are verdicts of Protein,
\* whose own logging is not part of get_energies)
RejectedHere(resp) ==
    \/ Raising(resp)
    \/ /\ process_md_output(resp) = "true"
       /\ \/ StatusRejected(resp)
          \/ /\ ~get_energy(resp).raised
             /\ ZeroEnergy(get_energy(resp).energy)

\* C12: no worker is invalidated without a log entry: when get_energies
\* returns, the log holds an entry carrying the uid of every processed
\* worker that it rejected for a bad status, for the sentinel energy 0 or
\* because processing the worker raised.
C12_FailureIsLogged ==
    ge_pc = "returned" =>
        \A i \in 1..Paired :
            RejectedHere(responses[i]) =>
                \E k \in 1..Len(ge_log) : ge_log[k].uid = uids[i]

\* a response that passes parse, status and the zero-energy test and whose
\* validity check returns
Passed(resp) ==
    /\ process_md_output(resp) = "true"
    /\ ~StatusRejected(resp)
    /\ ~get_energy(resp).raised
    /\ ~ZeroEnergy(get_energy(resp).energy)
    /\ ~is_run_valid(get_energy(resp).energy, resp).raised

\* position j of energies and of the four arrays
Slot(en, ev, j) ==
    << en[j], ev.is_valid[j], ev.checked_energy[j], ev.reported_energy[j],
       ev.rmsds[j] >>

\* what processing worker i may do to the arrays
WorkerStep ==
    (ge_pc = "loop" /\ ge_i' = ge_i + 1) =>
        LET i    == ge_i'
            resp == responses[i]
            e    == get_energy(resp)
            c    == is_run_valid(e.energy, resp)
        IN /\ Len(energies') = Len(uids)
           /\ \A key \in DOMAIN ge_event : Len(ge_event'[key]) = Len(uids)
           /\ \A j \in (1..Len(uids)) \ {i} :
                Slot(energies', ge_event', j) = Slot(energies, ge_event, j)
           /\ Slot(energies', ge_event', i) =
                IF Passed(resp)
                THEN << IF c.is_valid THEN e.energy ELSE 0,
                        c.is_valid, c.checked_energy, e.energy, e.rmsd >>
                ELSE << 0, FALSE, 0, 0, 0 >>

\* C18: processing worker i changes only position i of energies and of the
\* four diagnostic arrays, and writes it all-or-nothing: all of is_valid,
\* checked_energy, reported_energy and rmsds are set from the worker when
\* it passed parse, status, the non-zero test and the validity check
\* returned, and otherwise all keep their defaults and energies[i] stays 0.
C18_AllOrNothing == [][WorkerStep]_vars

\* the first worker passed every gate but was found invalid, the second
\* reported the sentinel energy: one position fully written, one untouched
C18_Witness ==
    /\ ge_pc = "returned"
    /\ Len(uids) = 2
    /\ Len(responses) = 2
    /\ Passed(responses[1])
    /\ responses[1].run_check = "invalid"
    /\ ~Passed(responses[2])
    /\ responses[2].status_code = 200
    /\ get_energy(responses[2]).energy = 0
    /\ Slot(energies, ge_event, 1) =
         << 0, FALSE, responses[1].md_output.energy - 1,
            responses[1].md_output.energy, responses[1].md_output.rmsd >>
    /\ Slot(energies, ge_event, 2) = << 0, FALSE, 0, 0, 0 >>

\* ----------------------------------------------------------------- gro_hash
\* A file is the list f.readlines() returns; a line is its characters
\* without the line end (line.decode().strip() removes it).
Digit == {"0", "1", "2", "3", "4", "5", "6", "7", "8", "9"}

Letter == {"A", "B", "C", "D", "E", "F", "G", "H", "I", "J", "K", "L", "M",
           "N", "O", "P", "Q", "R", "S", "T", "U", "V", "W", "X", "Y", "Z"}

\* the classes \d, \w and \s of the pattern
Word == Digit \cup Letter \cup {"_"}

Space == {" "}

\* most atom lines a file has besides its two header lines and its box line
MaxAtoms == 2

\* fields joined by single blanks
RECURSIVE Join(_)
Join(fields) ==
    IF Len(fields) = 0 THEN <<>>
    ELSE IF Len(fields) = 1 THEN fields[1]
    ELSE fields[1] \o <<" ">> \o Join(Tail(fields))

AtomLines ==
    { Join(<< <<"1","A">>, <<"B","1">>, <<"1">>, <<"0",".","5">> >>),
      Join(<< <<"1","A">>, <<"B">>, <<"1","1">>, <<"0",".","5">> >>),
      Join(<< <<"1","A","B">>, <<"1","1">>, <<"0",".","5">> >>),
      Join(<< <<"1","A">>, <<"B">>, <<"1">>, <<"0",".","5">> >>),
      Join(<< <<"1","A">>, <<"B">>, <<"1">>, <<"-","1",".","5">> >>),
      Join(<< <<"2","A">>, <<"B">>, <<"1">>, <<"0",".","5">> >>) }

\* an atom line whose coordinate field is not a number
BrokenLines ==
    { Join(<< <<"1","A">>, <<"B">>, <<"1">>, <<"X">> >>) }

BoxLine == Join(<< <<"9",".","0">>, <<"9",".","0">>, <<"9",".","0">> >>)

TitleLines == { <<"T">>, <<"U">> }

CountLines == { <<"2">>, <<"N">>, <<"-", "2">>, <<" ", "1", "_", "0">> }

GroFiles ==
    { <<t, c>> \o a \o b :
        t \in TitleLines, c \in CountLines,
        a \in SeqsUpTo(AtomLines \cup BrokenLines, MaxAtoms),
        b \in { <<>>, <<BoxLine>> } }

\* the files that differ from f in at most one line
OneLineEdits(f) ==
    { g \in GroFiles :
        /\ Len(g) = Len(f)
        /\ Cardinality({ k \in 1..Len(f) : g[k] # f[k] }) <= 1 }

\* where the longest run of characters of class C that starts at p ends
RunEnd(line, p, C) ==
    CHOOSE e \in p..(Len(line) + 1) :
        /\ \A k \in p..(e - 1) : line[k] \in C
        /\ e = Len(line) + 1 \/ line[e] \notin C

\* \s+(\-?\d+\.\d+)+ matches at position e
FloatAt(line, e) ==
    /\ e <= Len(line)
    /\ line[e] \in Space
    /\ LET q == RunEnd(line, e, Space)
           n == IF q <= Len(line) /\ line[q] = "-" THEN q + 1 ELSE q
           d == RunEnd(line, n, Digit)
       IN /\ d > n
          /\ d <= Len(line)
          /\ line[d] = "."
          /\ RunEnd(line, d + 1, Digit) > d + 1

\* group(2).replace(" ", "")
RECURSIVE Unspaced(_)
Unspaced(str) ==
    IF str = <<>> THEN <<>>
    ELSE IF Head(str) = " " THEN Unspaced(Tail(str))
    ELSE <<Head(str)>> \o Unspaced(Tail(str))

\* pattern.match(line) for r"\s*(\d+\w+)\s+(\w+\d*\s*\d+)\s+(\-?\d+\.\d+)+":
\* group 1 is the first run of word characters, which starts with a digit;
\* group 2 is the next run of word characters together with the run of
\* digits after it if a number follows that, else that run alone if it ends
\* in a digit and a number follows it.
Match(line) ==
    LET p0 == RunEnd(line, 1, Space)
        e1 == RunEnd(line, p0, Word)
        p2 == RunEnd(line, e1, Space)
        e2 == RunEnd(line, p2, Word)
        p3 == RunEnd(line, e2, Space)
        e3 == RunEnd(line, p3, Digit)
        no == [matched |-> FALSE, group1 |-> <<>>, group2 |-> <<>>]
    IN IF ~ ( /\ e1 - p0 >= 2
              /\ line[p0] \in Digit
              /\ e1 <= Len(line)
              /\ line[e1] \in Space
              /\ e2 > p2 )
       THEN no
       ELSE IF p3 > e2 /\ e3 > p3 /\ FloatAt(line, e3)
       THEN [ matched |-> TRUE, group1 |-> SubSeq(line, p0, e1 - 1),
              group2 |-> SubSeq(line, p2, e3 - 1) ]
       ELSE IF e2 - p2 >= 2 /\ line[e2 - 1] \in Digit /\ FloatAt(line, e2)
       THEN [ matched |-> TRUE, group1 |-> SubSeq(line, p0, e1 - 1),
              group2 |-> SubSeq(line, p2, e2 - 1) ]
       ELSE no

\* the line without the blanks at its two ends
Stripped(line) ==
    LET a == RunEnd(line, 1, Space)
        b == CHOOSE e \in 0..Len(line) :
                 /\ \A k \in (e + 1)..Len(line) : line[k] \in Space
                 /\ e = 0 \/ line[e] \notin Space
    IN SubSeq(line, a, b)

\* int(length) succeeds: blanks around, an optional sign, then digits with
\* single underscores allowed between them
IsInt(line) ==
    LET t == Stripped(line)
        u == IF t # <<>> /\ t[1] \in {"+", "-"} THEN Tail(t) ELSE t
    IN /\ u # <<>>
       /\ u[1] \in Digit
       /\ u[Len(u)] \in Digit
       /\ \A k \in 1..Len(u) : u[k] \in Digit \cup {"_"}
       /\ \A k \in 1..(Len(u) - 1) : ~(u[k] = "_" /\ u[k + 1] = "_")

\* the for loop over `lines`, lines 93-99: file[k..last] are the lines;
\* buf is the buffer, folded the positions of the lines that went into it
RECURSIVE FoldLines(_, _, _)
FoldLines(file, k, last) ==
    IF k > last THEN [raised |-> FALSE, buf |-> <<>>, folded |-> {}]
    ELSE LET m == Match(file[k]) IN
         IF ~m.matched THEN [raised |-> TRUE, buf |-> <<>>, folded |-> {}]
         ELSE LET rest == FoldLines(file, k + 1, last) IN
              IF rest.raised THEN rest
              ELSE [ raised |-> FALSE,
                     buf |-> m.group1 \o Unspaced(m.group2) \o rest.buf,
                     folded |-> {k} \cup rest.folded ]

\* hashlib.md5(x).hexdigest(): distinct inputs are taken to have distinct
\* digests
md5(x) == [md5 |-> x]

GroRaised(exc) ==
    [raised |-> TRUE, exc |-> exc, digest |-> md5(<<>>), folded |-> {}]

\* gro_hash(gro_path)
gro_hash(file) ==
    IF Len(file) < 3 THEN GroRaised("ValueError")
    ELSE IF ~IsInt(file[2]) THEN GroRaised("ValueError")
    ELSE LET r == FoldLines(file, 3, Len(file) - 1) IN
         IF r.raised THEN GroRaised("Exception")
         ELSE [ raised |-> FALSE, exc |-> "",
                digest |-> md5(<<file[1], r.buf>>),
                folded |-> r.folded ]

InitGro ==
    /\ EnergiesIdle /\ ForwardIdle /\ CmdIdle /\ InfoIdle /\ SelectIdle
    /\ gro_file \in GroFiles
    /\ gro_other \in OneLineEdits(gro_file)
    /\ gro_pc = "call"
    /\ gro_out = Unbound
    /\ gro_out_other = Unbound

\* both files are hashed
GRO_Hash ==
    /\ gro_pc = "call"
    /\ gro_out' = gro_hash(gro_file)
    /\ gro_out_other' = gro_hash(gro_other)
    /\ gro_pc' = "done"
    /\ UNCHANGED <<gro_file, gro_other, ge_vars, fw_vars, cmd_vars, info_vars,
                   sel_vars>>

NextGro == GRO_Hash

SpecGro == InitGro /\ [][NextGro]_vars

\* ------------------------------------------------------ gro_hash: properties
\* the lines of a file that describe atoms: all but the two header lines
\* and the box line
AtomPositions(file) ==
    { k \in 3..Len(file) : file[k] # BoxLine }

WellFormed(file) ==
    /\ Len(file) >= 3
    /\ file[Len(file)] = BoxLine
    /\ IsInt(file[2])
    /\ \A k \in 3..(Len(file) - 1) : Match(file[k]).matched

\* the (residue token, atom token) pairs of the atom lines, in file order
Tokens(file) ==
    [ k \in 1..(Len(file) - 3) |->
        << Match(file[k + 2]).group1, Unspaced(Match(file[k + 2]).group2) >> ]

\* C11: gro_hash never skips an atom line: when it returns a digest, every
\* atom line of the file went into the buffer, with or without a box line
\* at the end and whatever the count on line 2 says; otherwise it fails.
C11_NoAtomLineSkipped ==
    (gro_pc = "done" /\ ~gro_out.raised) =>
        AtomPositions(gro_file) \subseteq gro_out.folded

\* C13: the digest depends only on the title line and the ordered sequence
\* of (residue token, atom token) pairs: two well-formed files with the same
\* title and the same pairs have the same digest, and two that differ in the
\* title or in any pair have digests of different buffers.
C13_DigestOfTokens ==
    ( /\ gro_pc = "done"
      /\ WellFormed(gro_file)
      /\ WellFormed(gro_other) ) =>
        /\ ~gro_out.raised
        /\ ~gro_out_other.raised
        /\ gro_out = gro_hash(gro_file)
        /\ ( gro_out.digest = gro_out_other.digest
               <=> /\ gro_file[1] = gro_other[1]
                   /\ Tokens(gro_file) = Tokens(gro_other) )

\* --------------------------------------------------------- run_cmd_commands
\* most commands in one call
MaxCommands == 2

\* What running a command gives: cmd is the command string, returncode the
\* exit status, stdout_utf8 and stderr_utf8 tell whether the captured bytes
\* decode as UTF-8.
Commands ==
    [ cmd : {"a", "b"}, returncode : {0, 1},
      stdout_utf8 : BOOLEAN, stderr_utf8 : BOOLEAN ]

\* the except clause, lines 131-140
CmdFailed(c, suppress) ==
    IF ~suppress /\ ~c.stderr_utf8
    THEN [exit |-> "raise", timings |-> EmptyDict, errors |-> EmptyDict]
    ELSE IF ~c.stdout_utf8
    THEN [ exit |-> "raise", timings |-> EmptyDict,
           errors |-> "breaking_command" :> c.cmd ]
    ELSE [ exit |-> "return", timings |-> EmptyDict,
           errors |-> ( "breaking_command" :> c.cmd
                        @@ "command_output" :> "stdout"
                        @@ "return_code" :> c.returncode ) ]

\* the body of `for cmd in commands`, lines 115-140: what it adds to
\* timings and errors and how it leaves
CmdPass(c, suppress) ==
    IF c.returncode # 0 THEN CmdFailed(c, suppress)
    ELSE IF ~suppress /\ ~c.stdout_utf8
    THEN [exit |-> "raise", timings |-> c.cmd :> Elapsed, errors |-> EmptyDict]
    ELSE [exit |-> "next", timings |-> c.cmd :> Elapsed, errors |-> EmptyDict]

InitCmd ==
    /\ EnergiesIdle /\ ForwardIdle /\ GroIdle /\ InfoIdle /\ SelectIdle
    /\ commands \in SeqsUpTo(Commands, MaxCommands)
    /\ suppress_cmd_output \in BOOLEAN
    /\ cmd_pc = "call"
    /\ cmd_i = 0
    /\ timings = Unbound
    /\ errors = Unbound

\* lines 111-112
CMD_Enter ==
    /\ cmd_pc = "call"
    /\ timings' = EmptyDict
    /\ errors' = EmptyDict
    /\ cmd_pc' = "loop"
    /\ UNCHANGED <<commands, suppress_cmd_output, cmd_i, ge_vars, fw_vars,
                   gro_vars, info_vars, sel_vars>>

\* one pass of the for loop: the next command is run
CMD_Run ==
    /\ cmd_pc = "loop"
    /\ cmd_i < Len(commands)
    /\ LET r == CmdPass(commands[cmd_i + 1], suppress_cmd_output)
       IN /\ timings' = Update(timings, r.timings)
          /\ errors' = Update(errors, r.errors)
          /\ cmd_pc' = CASE r.exit = "raise"  -> "raised"
                         [] r.exit = "return" -> "returned"
                         [] OTHER             -> "loop"
    /\ cmd_i' = cmd_i + 1
    /\ UNCHANGED <<commands, suppress_cmd_output, ge_vars, fw_vars, gro_vars,
                   info_vars, sel_vars>>

\* line 142
CMD_Return ==
    /\ cmd_pc = "loop"
    /\ cmd_i = Len(commands)
    /\ cmd_pc' = "returned"
    /\ UNCHANGED <<commands, suppress_cmd_output, cmd_i, timings, errors,
                   ge_vars, fw_vars, gro_vars, info_vars, sel_vars>>

NextCmd == CMD_Enter \/ CMD_Run \/ CMD_Return

SpecCmd == InitCmd /\ [][NextCmd]_vars

\* ---------------------------------------------- run_cmd_commands: properties
\* the positions of the commands that exit with an error
Failing == { k \in 1..Len(commands) : commands[k].returncode # 0 }

FirstFailing == CHOOSE k \in Failing : \A j \in Failing : k <= j

\* C16: the commands run in list order; at the first command that exits
\* with an error run_cmd_commands returns, and does not raise, without
\* running a later command, errors names that command and timings holds
\* the commands that completed before it; errors is empty exactly when
\* every command succeeded.
C16_AbortAtFirstFailure ==
    /\ cmd_pc # "raised"
    /\ cmd_pc \in {"loop", "returned"} =>
         /\ cmd_i <= Len(commands)
         /\ Failing # {} => cmd_i <= FirstFailing
         /\ DOMAIN timings =
              { commands[k].cmd :
                  k \in { j \in 1..cmd_i : commands[j].returncode = 0 } }
    /\ cmd_pc = "returned" =>
         /\ (errors = EmptyDict) <=> (Failing = {})
         /\ Failing = {} => cmd_i = Len(commands)
         /\ Failing # {} =>
              /\ cmd_i = FirstFailing
              /\ errors["breaking_command"] = commands[FirstFailing].cmd
              /\ errors["return_code"] = commands[FirstFailing].returncode

\* -------------------------------------------------------- get_response_info
\* most responses in one call
MaxResponses == 2

InitInfo ==
    /\ EnergiesIdle /\ ForwardIdle /\ GroIdle /\ CmdIdle /\ SelectIdle
    /\ info_responses \in SeqsUpTo(InfoResponses, MaxResponses)
    /\ info_pc = "call"
    /\ info_out = Unbound

\* lines 148-151
INFO_Enter ==
    /\ info_pc = "call"
    /\ info_out' = [ response_times |-> <<>>,
                     response_status_messages |-> <<>>,
                     response_status_codes |-> <<>>,
                     response_returned_files |-> <<>> ]
    /\ info_pc' = "loop"
    /\ UNCHANGED <<info_responses, ge_vars, fw_vars, gro_vars, cmd_vars,
                   sel_vars>>

\* one pass of `for resp in responses`; the position in the list is the
\* number of status codes appended so far
INFO_Response ==
    /\ info_pc = "loop"
    /\ Len(info_out.response_status_codes) < Len(info_responses)
    /\ LET resp == info_responses[Len(info_out.response_status_codes) + 1]
       IN info_out' =
            [ response_times |-> info_out.response_times \o TimeEntry(resp),
              response_status_messages |->
                  Append(info_out.response_status_messages,
                         StrMessage(resp.status_message)),
              response_status_codes |->
                  Append(info_out.response_status_codes,
                         StrCode(resp.status_code)),
              response_returned_files |->
                  Append(info_out.response_returned_files,
                         Keys(resp.md_output)) ]
    /\ UNCHANGED <<info_responses, info_pc, ge_vars, fw_vars, gro_vars,
                   cmd_vars, sel_vars>>

\* lines 163-168
INFO_Return ==
    /\ info_pc = "loop"
    /\ Len(info_out.response_status_codes) = Len(info_responses)
    /\ info_pc' = "returned"
    /\ UNCHANGED <<info_responses, info_out, ge_vars, fw_vars, gro_vars,
                   cmd_vars, sel_vars>>

NextInfo == INFO_Enter \/ INFO_Response \/ INFO_Return

SpecInfo == InitInfo /\ [][NextInfo]_vars

\* --------------------------------------------- get_response_info: properties
\* C17: the four lists get_response_info returns have exactly one entry per
\* response, in response order; a response without a process time (None)
\* has time 0 and every other response its own process time.
C17_OneEntryPerResponse ==
    info_pc = "returned" =>
        /\ \A key \in { "response_times", "response_status_messages",
                        "response_status_codes", "response_returned_files" } :
             Len(info_out[key]) = Len(info_responses)
        /\ \A k \in 1..Len(info_responses) :
             LET resp == info_responses[k] IN
             /\ Len(info_out.response_times) >= k =>
                  info_out.response_times[k] =
                     IF resp.process_time = <<>> THEN 0
                     ELSE resp.process_time[1]
             /\ info_out.response_status_messages[k] =
                  StrMessage(resp.status_message)
             /\ info_out.response_status_codes[k] = StrCode(resp.status_code)
             /\ info_out.response_returned_files[k] = Keys(resp.md_output)

\* two responses, the first without a process time and the second with one
C17_Witness ==
    /\ info_pc = "returned"
    /\ Len(info_responses) = 2
    /\ info_responses[1].process_time = <<>>
    /\ info_responses[2].process_time = <<7>>
    /\ info_out.response_times = <<0, 7>>
    /\ info_out.response_status_codes[2] = "200"

\* ----------------------------------------------------- select_random_pdb_id
\* most identifiers in one list of the pool
MaxPool == 2

Families == {"f1", "f2"}

IdLists == SeqsUpTo(PDB_IDS, MaxPool)

\* The pool is a dict from family to list of identifiers, or a plain list.
Pools ==
    { [type |-> "dict", value |-> d] :
        d \in UNION { [F -> IdLists] : F \in SUBSET Families } }
    \cup { [type |-> "list", value |-> l] : l \in IdLists }

Elements(list) == { list[k] : k \in 1..Len(list) }

\* the identifiers a pool holds
PoolIds(pool) ==
    IF pool.type = "list" THEN Elements(pool.value)
    ELSE UNION { Elements(pool.value[f]) : f \in DOMAIN pool.value }

\* the values `choices` can take in the try/except of one pass: the list of
\* a randomly chosen family, or the pool itself when the try block raises
\* (a list has no keys(); random.choice of no keys raises)
ChoicesOf(pool) ==
    IF pool.type = "dict" /\ DOMAIN pool.value # {}
    THEN { pool.value[f] : f \in DOMAIN pool.value }
    ELSE IF pool.type = "dict" THEN { <<>> }
    ELSE { pool.value }

\* faulty variant: `choices` is not tested before the draw
HasChoicesMutant(choices) == TRUE

\* if len(choices)
HasChoices(choices) == Len(choices) # 0

InitSelect ==
    /\ EnergiesIdle /\ ForwardIdle /\ GroIdle /\ CmdIdle /\ InfoIdle
    /\ sel_PDB_IDS \in Pools
    /\ sel_pc = "loop"
    /\ sel_choices = <<>>
    /\ sel_out = None

\* lines 58-62: try/except of one pass of `while True`, ending with
\* `choices` equal to c
SEL_Try(c) ==
    /\ sel_pc = "loop"
    /\ c \in ChoicesOf(sel_PDB_IDS)
    /\ sel_choices' = c
    /\ sel_pc' = "finally"
    /\ UNCHANGED <<sel_PDB_IDS, sel_out, ge_vars, fw_vars, gro_vars, cmd_vars,
                   info_vars>>

\* lines 63-65: the finally clause returns a random element of `choices`
\* or falls through to the next pass; random.choice of an empty list
\* raises IndexError
SEL_Finally ==
    /\ sel_pc = "finally"
    /\ IF ~HasChoices(sel_choices)
       THEN sel_pc' = "loop" /\ sel_out' = sel_out
       ELSE IF sel_choices = <<>>
       THEN sel_pc' = "raised" /\ sel_out' = sel_out
       ELSE /\ sel_pc' = "returned"
            /\ \E k \in 1..Len(sel_choices) : sel_out' = sel_choices[k]
    /\ UNCHANGED <<sel_PDB_IDS, sel_choices, ge_vars, fw_vars, gro_vars,
                   cmd_vars, info_vars>>

NextSelect == (\E c \in IdLists : SEL_Try(c)) \/ SEL_Finally

\* random.choice is fair: a family that can be drawn again and again is
\* drawn at some point
SpecSelect ==
    /\ InitSelect
    /\ [][NextSelect]_vars
    /\ \A c \in IdLists : SF_vars(SEL_Try(c))
    /\ WF_vars(SEL_Finally)

\* ------------------------------------------ select_random_pdb_id: properties
\* C19: select_random_pdb_id returns only an element of the pool (of the
\* group it drew for a grouped pool, of the list for a flat pool); it
\* eventually returns whenever the pool holds an identifier; and it never
\* returns, and never fails, when the pool holds none.
C19_SelectFromPool ==
    /\ [] ( sel_pc = "returned" =>
              /\ sel_choices \in ChoicesOf(sel_PDB_IDS)
              /\ sel_out \in Elements(sel_choices)
              /\ sel_out \in PoolIds(sel_PDB_IDS) )
    /\ ( (sel_pc = "loop" /\ PoolIds(sel_PDB_IDS) # {})
           ~> sel_pc = "returned" )
    /\ [] ( (sel_pc # "idle" /\ PoolIds(sel_PDB_IDS) = {}) =>
              sel_pc \in {"loop", "finally"} )

\* a grouped pool with one empty family: the identifier comes from the other
C19_Witness ==
    /\ sel_pc = "returned"
    /\ sel_PDB_IDS.type = "dict"
    /\ DOMAIN sel_PDB_IDS.value = Families
    /\ sel_PDB_IDS.value["f1"] = <<>>
    /\ sel_choices = sel_PDB_IDS.value["f2"]
    /\ sel_out \in Elements(sel_PDB_IDS.value["f2"])

====
